---- MODULE Spec2Model ----
\* Verification model of the OCR extractor service:
\*   src/Executor.py  the process pool (MAX_WORKERS worker processes)
\*   src/Main.py      the /process endpoint that validates and dispatches
\*   src/Worker.py    init_reader, extractor_call and the process_document pipeline
EXTENDS Integers, Sequences, FiniteSets, TLC

\* ---------------------------------------------------------------- bounds
MaxRequests == 2
MaxCpu == 3
MaxPages == 2

\* ---------------------------------------------------------------- values
None == "None"

Requests == 1..MaxRequests

\* A filename is the sequence of its dot-separated segments; <<>> is the
\* missing/empty filename (falsy in Python).
FileNames == { <<"SCAN", "PDF">>, <<"card", "jpg">>, <<"notes", "txt">>, <<>> }

\* str.lower() on the segments that occur
Lower(s) ==
    CASE s = "PDF" -> "pdf"
      [] s = "SCAN" -> "scan"
      [] s = "JPG" -> "jpg"
      [] OTHER -> s

\* ext = (filename.split(".")[-1].lower() if filename else "")
Ext(fname) == IF fname # <<>> THEN Lower(fname[Len(fname)]) ELSE ""

\* Python's `a or b` on filenames
OrElse(a, b) == IF a # <<>> THEN a ELSE b

\* an allow-list that lets a text file through
AllowedWithTxt == {"pdf", "jpg", "jpeg", "png", "txt"}

ALLOWED == {"pdf", "jpg", "jpeg", "png"}

Angles == <<0, 90, -90>>

AngleSet == {Angles[i] : i \in 1..Len(Angles)}

\* ---------------------------------------------------------------- state
VARIABLES
    cpuCount,     \* multiprocessing.cpu_count()
    broken,       \* the pool lost a worker process (BrokenProcessPool)
    queue,        \* the pool's pending work items: (request, raw, filename)
    rstate,       \* per request: "unsent", "queued", "running", "finished", "answered", "discarded"
    future,       \* per request: the outcome of the run_in_executor future
    response,     \* per request: the JSONResponse sent to the caller
    gone,         \* the requests whose caller closed the connection
    reader,       \* per worker process: the global EasyOCR reader
    loads,        \* per worker process: number of easyocr.Reader constructions
    pc,           \* per worker process: position inside process_document
    task,         \* per worker process: the request it is running (0: none)
    loc,          \* per worker process: the locals of process_document
    trace         \* per request: the stages its run executed, with their results

vars == <<cpuCount, broken, queue, rstate, future, response, gone, reader, loads, pc, task, loc, trace>>

\* the pool size without its floor of one
MaxWorkersNoFloor == cpuCount - 1

\* CPU_COUNT - 1 workers, at least one
MAX_WORKERS == IF cpuCount - 1 > 1 THEN cpuCount - 1 ELSE 1

\* a pool with one worker per core
WorkersPerCore == 1..cpuCount

Workers == 1..MAX_WORKERS

NoFuture == [kind |-> "pending"]

NoResponse == [status |-> "none"]

\* reader = None
NoReader == [pid |-> 0, build |-> 0]

NoLocals ==
    [raw |-> None, filename |-> None, img |-> None, rotation |-> None, card |-> None, img_bytes |-> None]

\* The uploaded bytes of request r
RawOf(r) == [bytes |-> r]

Init ==
    /\ cpuCount \in 1..MaxCpu
    /\ broken = FALSE
    /\ queue = <<>>
    /\ rstate = [r \in Requests |-> "unsent"]
    /\ future = [r \in Requests |-> NoFuture]
    /\ response = [r \in Requests |-> NoResponse]
    /\ gone = {}
    /\ reader = [w \in Workers |-> NoReader]
    /\ loads = [w \in Workers |-> 0]
    /\ pc = [w \in Workers |-> "idle"]
    /\ task = [w \in Workers |-> 0]
    /\ loc = [w \in Workers |-> NoLocals]
    /\ trace = [r \in Requests |-> <<>>]

\* ---------------------------------------------------------------- exceptions and envelopes
Exception(type, msg) == [type |-> type, msg |-> msg]

\* str(e)
Str(e) == e.msg

Returned(value) == [kind |-> "result", value |-> value]

Raised(e) == [kind |-> "exception", exc |-> e]

BrokenProcessPool == Exception("BrokenProcessPool", <<"A process in the process pool was terminated abruptly">>)

InvalidFileType ==
    [status |-> "failure",
     reason |-> "Invalid file type. Please upload either one of pdf, jpg, jpeg or png"]

\* the catch-all envelope without its reason
ProcessingFailedNoReason(e) == [status |-> "failure", detail |-> Str(e)]

ProcessingFailed(e) == [status |-> "failure", reason |-> "Processing failed", detail |-> Str(e)]

\* a decode failure reported under the catch-all reason
DecodingFailedGeneric == [status |-> "failure", reason |-> "Processing failed"]

DecodingFailed == [status |-> "failure", reason |-> "Decoding failed. Please retry again."]

RotationField(rot) ==
    [best_angle |-> rot.best_angle, best_stats |-> rot.best_stats, per_angle |-> rot.per_angle]

CARD_NOT_DETECTED ==
    "Card not detected. Please make sure all edges of the cards are visible. Note: Retake/re-upload in better quality-good lighting, sharp focus, no shadows/glare."

\* the card-detection failure without its rotation diagnostics
CardNotDetectedNoRotation(rot) == [status |-> "failure", reason |-> CARD_NOT_DETECTED]

CardNotDetected(rot) ==
    [status |-> "failure", reason |-> CARD_NOT_DETECTED, rotation |-> RotationField(rot)]

\* the gate's reason replaced by a fixed text
QualityRejectedGeneric(reason, rot) ==
    [status |-> "failure", reason |-> "Image quality too low", rotation |-> RotationField(rot)]

QualityRejected(reason, rot) ==
    [status |-> "failure", reason |-> reason, rotation |-> RotationField(rot)]

PdfSuccess(extractor_json) == [status |-> "success", data |-> extractor_json]

PdfExtractorFailed(e) == [status |-> "failure", reason |-> "extractor_failed", detail |-> Str(e)]

\* the single-page success without its rotation diagnostics
CardSuccessNoRotation(extractor_json, rot) == [status |-> "success", data |-> extractor_json]

CardSuccess(extractor_json, rot) ==
    [status |-> "success", rotation |-> RotationField(rot), data |-> extractor_json]

\* the single-page extraction failure without its rotation diagnostics
CardExtractorFailedNoRotation(e, rot) ==
    [status |-> "failure", reason |-> "extractor_failed", detail |-> Str(e)]

CardExtractorFailed(e, rot) ==
    [status |-> "failure", reason |-> "extractor_failed", detail |-> Str(e),
     rotation |-> RotationField(rot)]

\* ---------------------------------------------------------------- the extraction client
\* What the remote endpoint does with one POST: a response, or no response in time.
HttpOutcomes ==
    { [kind |-> "response", status_code |-> 200, parses |-> TRUE,  body |-> "fields"],
      [kind |-> "response", status_code |-> 300, parses |-> FALSE, body |-> "moved"],
      [kind |-> "response", status_code |-> 500, parses |-> TRUE,  body |-> "error"],
      [kind |-> "timeout",  status_code |-> 0,   parses |-> FALSE, body |-> ""] }

Json(resp) == <<"json", resp.body>>

Text(resp) == <<"text", resp.body>>

\* extractor_call taking 300 for a success status
ExtractorCallAccepts300(http) ==
    IF http.kind = "timeout"
    THEN Raised(Exception("TimeoutException", <<"timed out">>))
    ELSE IF http.status_code < 200 \/ http.status_code > 300
         THEN Raised(Exception("RuntimeError",
                  <<"ExtractorDev error", http.status_code,
                    IF http.parses THEN Json(http) ELSE Text(http)>>))
         ELSE IF http.parses
              THEN Returned(Json(http))
              ELSE Raised(Exception("JSONDecodeError", <<"Expecting value">>))

\* extractor_call: the outcome of the call given what the endpoint did
ExtractorCall(http) ==
    IF http.kind = "timeout"
    THEN Raised(Exception("TimeoutException", <<"timed out">>))
    ELSE IF http.status_code < 200 \/ http.status_code >= 300
         THEN Raised(Exception("RuntimeError",
                  <<"ExtractorDev error", http.status_code,
                    IF http.parses THEN Json(http) ELSE Text(http)>>))
         ELSE IF http.parses
              THEN Returned(Json(http))
              ELSE Raised(Exception("JSONDecodeError", <<"Expecting value">>))

\* the forwarded PDF labelled as an image
PdfUploadAsImage(raw, fname) ==
    [file_bytes |-> raw, filename |-> OrElse(fname, <<"file", "pdf">>), content_type |-> "image/png"]

PdfUpload(raw, fname) ==
    [file_bytes |-> raw, filename |-> OrElse(fname, <<"file", "pdf">>), content_type |-> "application/pdf"]

CardUpload(img_bytes) ==
    [file_bytes |-> img_bytes, filename |-> <<"card", "png">>, content_type |-> "image/png"]

\* ---------------------------------------------------------------- the image collaborators
\* The engine's confidence summary for img rotated by angle a: a fixed function
\* of the pixels (recognition is deterministic), different for different uploads.
Confidence(img, a) ==
    CASE img.pixels.bytes % 3 = 1 -> 1
      [] img.pixels.bytes % 3 = 2 -> IF a = 90 THEN 2 ELSE 1
      [] OTHER -> IF a = -90 THEN 2 ELSE 0

Abs(x) == IF x < 0 THEN -x ELSE x

\* best score wins; ties: angle 0, then the smaller magnitude, then first seen
BestAngle(scores) ==
    LET top == {a \in AngleSet : \A b \in AngleSet : scores[b] <= scores[a]}
        low == {a \in top : \A b \in top : Abs(a) <= Abs(b)}
        first == CHOOSE i \in 1..Len(Angles) :
                    /\ Angles[i] \in low
                    /\ \A j \in 1..Len(Angles) : Angles[j] \in low => i <= j
    IN Angles[first]

\* Image.open(...).convert("RGB")
DecodeRGB(raw) == [pixels |-> raw, angle |-> 0]

\* best_rotation_by_easyocr
BestRotation(img) ==
    LET scores == [a \in AngleSet |-> Confidence(img, a)]
        best == BestAngle(scores)
    IN [img |-> [img EXCEPT !.angle = best],
        best_angle |-> best, best_stats |-> scores[best], per_angle |-> scores]

\* extract_card: what it may return for img, the cropped card or nothing (falsy)
ExtractCard(img) ==
    { [found |-> TRUE, crop |-> img, form |-> "cropped"],
      [found |-> FALSE, crop |-> img, form |-> "none"] }

\* resize_long_edge(preprocess_for_compress_and_readability(card))
Normalize(card) == [card EXCEPT !.form = "normalized"]

QualityReasons == {"Image too blurry", "Text not legible"}

\* quality_check returns (ok, reason)
Verdicts == {<<TRUE, "OK">>} \cup {<<FALSE, q>> : q \in QualityReasons}

\* pil_to_png_bytes
PngBytes(card) == [png |-> card]

\* ---------------------------------------------------------------- the endpoint and the pool
\* run_in_executor(executor, process_document, raw, file.filename or "file")
WorkItem(r, raw, fname) == [req |-> r, raw |-> raw, filename |-> fname]

\* the except branch missing: the exception reaches the caller as it is
EndpointResponsePropagates(fut) ==
    IF fut.kind = "result" THEN fut.value ELSE [fault |-> Str(fut.exc)]

\* What the endpoint answers once the awaited future is done
EndpointResponse(fut) ==
    IF fut.kind = "result" THEN fut.value ELSE ProcessingFailed(fut.exc)

\* POST /process with an upload named fname: validate the extension, then
\* hand the work to the pool (run_in_executor) or answer right away.
Receive(r, fname) ==
    /\ rstate[r] = "unsent"
    /\ r > 1 => rstate[r - 1] # "unsent"
    /\ IF Ext(fname) \notin ALLOWED
       THEN /\ response' = [response EXCEPT ![r] = InvalidFileType]
            /\ rstate' = [rstate EXCEPT ![r] = "answered"]
            /\ UNCHANGED <<queue, future>>
       ELSE IF broken
            THEN /\ future' = [future EXCEPT ![r] = Raised(BrokenProcessPool)]
                 /\ response' = [response EXCEPT ![r] = EndpointResponse(Raised(BrokenProcessPool))]
                 /\ rstate' = [rstate EXCEPT ![r] = "answered"]
                 /\ UNCHANGED queue
            ELSE /\ queue' = Append(queue, WorkItem(r, RawOf(r), OrElse(fname, <<"file">>)))
                 /\ rstate' = [rstate EXCEPT ![r] = "queued"]
                 /\ UNCHANGED <<future, response>>
    /\ UNCHANGED <<cpuCount, broken, gone, reader, loads, pc, task, loc, trace>>

\* Idle worker processes that both hold an engine, or both hold none, differ
\* only in their number: of such processes the lowest-numbered one is taken
\* to be the one that gets the item.
FirstOfItsKind(w) ==
    \A v \in Workers :
       (v < w /\ pc[v] = "idle") => (reader[v] = NoReader) # (reader[w] = NoReader)

\* a worker process that takes the next item although it is still running one
AssignToBusy(w) ==
    /\ ~broken
    /\ pc[w] # "dead"
    /\ queue # <<>>
    /\ LET item == Head(queue)
       IN /\ queue' = Tail(queue)
          /\ rstate' = [rstate EXCEPT ![item.req] = "running"]
          /\ task' = [task EXCEPT ![w] = item.req]
          /\ pc' = [pc EXCEPT ![w] = "init_reader"]
          /\ loc' = [loc EXCEPT ![w] = [NoLocals EXCEPT !.raw = item.raw, !.filename = item.filename]]
    /\ UNCHANGED <<cpuCount, broken, future, response, gone, reader, loads, trace>>

\* An idle worker process takes the next work item and calls
\* process_document on its arguments.
Assign(w) ==
    /\ ~broken
    /\ pc[w] = "idle"
    /\ FirstOfItsKind(w)
    /\ queue # <<>>
    /\ LET item == Head(queue)
       IN /\ queue' = Tail(queue)
          /\ rstate' = [rstate EXCEPT ![item.req] = "running"]
          /\ task' = [task EXCEPT ![w] = item.req]
          /\ pc' = [pc EXCEPT ![w] = "init_reader"]
          /\ loc' = [loc EXCEPT ![w] = [NoLocals EXCEPT !.raw = item.raw, !.filename = item.filename]]
    /\ UNCHANGED <<cpuCount, broken, future, response, gone, reader, loads, trace>>

\* The awaited future is done: return JSONResponse(result), or the except branch.
Respond(r) ==
    /\ rstate[r] = "finished"
    /\ IF r \in gone
       THEN /\ rstate' = [rstate EXCEPT ![r] = "discarded"]
            /\ UNCHANGED response
       ELSE /\ response' = [response EXCEPT ![r] = EndpointResponse(future[r])]
            /\ rstate' = [rstate EXCEPT ![r] = "answered"]
    /\ UNCHANGED <<cpuCount, broken, queue, future, gone, reader, loads, pc, task, loc, trace>>

\* a disconnect that cancels the run: the worker drops the task unfinished
DisconnectCancels(r) ==
    /\ rstate[r] = "running"
    /\ r \notin gone
    /\ gone' = gone \cup {r}
    /\ rstate' = [rstate EXCEPT ![r] = "discarded"]
    /\ pc' = [w \in Workers |-> IF task[w] = r THEN "idle" ELSE pc[w]]
    /\ task' = [w \in Workers |-> IF task[w] = r THEN 0 ELSE task[w]]
    /\ loc' = [w \in Workers |-> IF task[w] = r THEN NoLocals ELSE loc[w]]
    /\ UNCHANGED <<cpuCount, broken, queue, future, response, reader, loads, trace>>

\* The caller of request r closes its connection while the run is in a worker
\* process: nothing in the endpoint or the pool reacts to it.
Disconnect(r) ==
    /\ rstate[r] = "running"
    /\ r \notin gone
    /\ gone' = gone \cup {r}
    /\ UNCHANGED <<cpuCount, broken, queue, rstate, future, response, reader, loads, pc, task, loc, trace>>

\* A worker process dies in the middle of a task: the pool is broken, every
\* pending future fails with BrokenProcessPool and the other workers are terminated.
Crash(w) ==
    /\ ~broken
    /\ pc[w] \notin {"idle", "dead"}
    /\ broken' = TRUE
    /\ queue' = <<>>
    /\ future' = [r \in Requests |->
                    IF rstate[r] \in {"queued", "running"} THEN Raised(BrokenProcessPool) ELSE future[r]]
    /\ rstate' = [r \in Requests |->
                    IF rstate[r] \in {"queued", "running"} THEN "finished" ELSE rstate[r]]
    /\ pc' = [v \in Workers |-> "dead"]
    /\ task' = [v \in Workers |-> 0]
    /\ loc' = [v \in Workers |-> NoLocals]
    /\ UNCHANGED <<cpuCount, response, gone, reader, loads, trace>>

\* ---------------------------------------------------------------- reading a run's trace
Stages(r) == [i \in 1..Len(trace[r]) |-> trace[r][i].stage]

Ran(r, stage) == \E i \in 1..Len(trace[r]) : trace[r][i].stage = stage

OutOf(r, stage) == trace[r][CHOOSE i \in 1..Len(trace[r]) : trace[r][i].stage = stage].out

\* ---------------------------------------------------------------- process_document
\* a run that ends without giving its worker process back to the pool
FinishKeepsWorker(w, outcome) ==
    /\ future' = [future EXCEPT ![task[w]] = outcome]
    /\ rstate' = [rstate EXCEPT ![task[w]] = "finished"]
    /\ pc' = [pc EXCEPT ![w] = "held"]
    /\ task' = [task EXCEPT ![w] = 0]
    /\ loc' = [loc EXCEPT ![w] = NoLocals]

\* The run in worker w ends: its outcome resolves the future of its request.
Finish(w, outcome) ==
    /\ future' = [future EXCEPT ![task[w]] = outcome]
    /\ rstate' = [rstate EXCEPT ![task[w]] = "finished"]
    /\ pc' = [pc EXCEPT ![w] = "idle"]
    /\ task' = [task EXCEPT ![w] = 0]
    /\ loc' = [loc EXCEPT ![w] = NoLocals]

\* Stage `stage` of the run in worker w was executed and produced `out`.
Log(w, stage, out) ==
    trace' = [trace EXCEPT ![task[w]] = Append(@, [stage |-> stage, out |-> out])]

\* init_reader without its guard: every call builds an engine
NeedsLoadAlways(rd) == TRUE

\* init_reader: `if reader is None`
NeedsLoad(rd) == rd = NoReader

\* process_document line 59: init_reader(). easyocr.Reader(...) builds the engine,
\* or fails to load its models and raises.
InitReader(w) ==
    /\ pc[w] = "init_reader"
    /\ IF NeedsLoad(reader[w])
       THEN \E loaded \in BOOLEAN :
               IF loaded
               THEN /\ reader' = [reader EXCEPT ![w] = [pid |-> w, build |-> loads[w] + 1]]
                    /\ loads' = [loads EXCEPT ![w] = @ + 1]
                    /\ pc' = [pc EXCEPT ![w] = "decode"]
                    /\ UNCHANGED <<future, rstate, task, loc>>
               ELSE /\ Finish(w, Raised(Exception("EngineLoadError", <<"easyocr.Reader">>)))
                    /\ UNCHANGED <<reader, loads>>
       ELSE /\ pc' = [pc EXCEPT ![w] = "decode"]
            /\ UNCHANGED <<future, rstate, task, loc, reader, loads>>
    /\ UNCHANGED <<cpuCount, broken, queue, response, gone, trace>>

\* Lines 64-101: the PDF branch of decoding.
DecodePdf(w) ==
    /\ pc[w] = "decode"
    /\ Ext(loc[w].filename) = "pdf"
    /\ \/ \* fitz.open raises
          /\ Log(w, "Decoding", "failed")
          /\ Finish(w, Returned(DecodingFailed))
       \/ \E pages \in 0..MaxPages :
             IF pages > 1
             THEN /\ Log(w, "Decoding", "multipage")
                  /\ pc' = [pc EXCEPT ![w] = "extract_pdf"]
                  /\ UNCHANGED <<future, rstate, task, loc>>
             ELSE IF pages = 0
                  THEN \* doc[0] on a document without pages
                       /\ Log(w, "Decoding", "raised")
                       /\ Finish(w, Raised(Exception("IndexError", <<"page not in document">>)))
                  ELSE \/ \* page.get_pixmap raises
                          /\ Log(w, "Decoding", "raised")
                          /\ Finish(w, Raised(Exception("PixmapError", <<"get_pixmap">>)))
                       \/ \* Image.open raises
                          /\ Log(w, "Decoding", "failed")
                          /\ Finish(w, Returned(DecodingFailed))
                       \/ /\ Log(w, "Decoding", "image")
                          /\ loc' = [loc EXCEPT ![w].img = DecodeRGB(loc[w].raw)]
                          /\ pc' = [pc EXCEPT ![w] = "orient"]
                          /\ UNCHANGED <<future, rstate, task>>
    /\ UNCHANGED <<cpuCount, broken, queue, response, gone, reader, loads>>

\* Lines 103-110: any other extension is decoded as an image.
DecodeImage(w) ==
    /\ pc[w] = "decode"
    /\ Ext(loc[w].filename) # "pdf"
    /\ \/ \* Image.open raises
          /\ Log(w, "Decoding", "failed")
          /\ Finish(w, Returned(DecodingFailed))
       \/ /\ Log(w, "Decoding", "image")
          /\ loc' = [loc EXCEPT ![w].img = DecodeRGB(loc[w].raw)]
          /\ pc' = [pc EXCEPT ![w] = "orient"]
          /\ UNCHANGED <<future, rstate, task>>
    /\ UNCHANGED <<cpuCount, broken, queue, response, gone, reader, loads>>

\* Lines 112-119: rotation.
Orienting(w) ==
    /\ pc[w] = "orient"
    /\ LET res == BestRotation(loc[w].img)
       IN /\ Log(w, "Orienting", RotationField(res))
          /\ loc' = [loc EXCEPT ![w].img = res.img, ![w].rotation = RotationField(res)]
    /\ pc' = [pc EXCEPT ![w] = "localize"]
    /\ UNCHANGED <<cpuCount, broken, queue, response, gone, reader, loads, future, rstate, task>>

\* Lines 121-133: card detection and its gate.
Localizing(w) ==
    /\ pc[w] = "localize"
    /\ \E card \in ExtractCard(loc[w].img) :
          /\ Log(w, "Localizing", card)
          /\ IF ~card.found
             THEN Finish(w, Returned(CardNotDetected(loc[w].rotation)))
             ELSE /\ loc' = [loc EXCEPT ![w].card = card]
                  /\ pc' = [pc EXCEPT ![w] = "normalize"]
                  /\ UNCHANGED <<future, rstate, task>>
    /\ UNCHANGED <<cpuCount, broken, queue, response, gone, reader, loads>>

\* normalization that hands over to the encoding, leaving the quality check out
NormalizingSkipsQuality(w) ==
    /\ pc[w] = "normalize"
    /\ Log(w, "Normalizing", Normalize(loc[w].card))
    /\ loc' = [loc EXCEPT ![w].card = Normalize(loc[w].card)]
    /\ pc' = [pc EXCEPT ![w] = "encode"]
    /\ UNCHANGED <<cpuCount, broken, queue, response, gone, reader, loads, future, rstate, task>>

\* Lines 135-137: preprocess and resize.
Normalizing(w) ==
    /\ pc[w] = "normalize"
    /\ Log(w, "Normalizing", Normalize(loc[w].card))
    /\ loc' = [loc EXCEPT ![w].card = Normalize(loc[w].card)]
    /\ pc' = [pc EXCEPT ![w] = "quality"]
    /\ UNCHANGED <<cpuCount, broken, queue, response, gone, reader, loads, future, rstate, task>>

\* the quality check with its gate left out: the verdict is computed and ignored
QualityCheckingIgnoresVerdict(w) ==
    /\ pc[w] = "quality"
    /\ \E verdict \in Verdicts : Log(w, "QualityChecking", verdict)
    /\ pc' = [pc EXCEPT ![w] = "encode"]
    /\ UNCHANGED <<cpuCount, broken, queue, response, gone, reader, loads, future, rstate, task, loc>>

\* Lines 139-152: the quality check and its gate.
QualityChecking(w) ==
    /\ pc[w] = "quality"
    /\ \E verdict \in Verdicts :
          LET ok == verdict[1]
              reason == verdict[2]
          IN /\ Log(w, "QualityChecking", verdict)
             /\ IF ~ok
                THEN Finish(w, Returned(QualityRejected(reason, loc[w].rotation)))
                ELSE /\ pc' = [pc EXCEPT ![w] = "encode"]
                     /\ UNCHANGED <<future, rstate, task, loc>>
    /\ UNCHANGED <<cpuCount, broken, queue, response, gone, reader, loads>>

\* Line 155: the card as PNG bytes.
Encoding(w) ==
    /\ pc[w] = "encode"
    /\ Log(w, "Encoding", PngBytes(loc[w].card))
    /\ loc' = [loc EXCEPT ![w].img_bytes = PngBytes(loc[w].card)]
    /\ pc' = [pc EXCEPT ![w] = "extract_card"]
    /\ UNCHANGED <<cpuCount, broken, queue, response, gone, reader, loads, future, rstate, task>>

\* Lines 75-87: a PDF of several pages is forwarded as it is.
ExtractPdf(w) ==
    /\ pc[w] = "extract_pdf"
    /\ \E http \in HttpOutcomes :
          LET upload == PdfUpload(loc[w].raw, loc[w].filename)
              res == ExtractorCall(http)
          IN /\ Log(w, "Extracting", [upload |-> upload, http |-> http, outcome |-> res])
             /\ IF res.kind = "result"
                THEN Finish(w, Returned(PdfSuccess(res.value)))
                ELSE Finish(w, Returned(PdfExtractorFailed(res.exc)))
    /\ UNCHANGED <<cpuCount, broken, queue, response, gone, reader, loads>>

\* the card upload with one retry: a first failed call is made again
ExtractCardImageRetries(w) ==
    /\ pc[w] = "extract_card"
    /\ \E http \in HttpOutcomes :
          LET upload == CardUpload(loc[w].img_bytes)
              res == ExtractorCall(http)
          IN /\ Log(w, "Extracting", [upload |-> upload, http |-> http, outcome |-> res])
             /\ IF res.kind = "result"
                THEN Finish(w, Returned(CardSuccess(res.value, loc[w].rotation)))
                ELSE IF Ran(task[w], "Extracting")
                     THEN Finish(w, Returned(CardExtractorFailed(res.exc, loc[w].rotation)))
                     ELSE UNCHANGED <<future, rstate, pc, task, loc>>
    /\ UNCHANGED <<cpuCount, broken, queue, response, gone, reader, loads>>

\* Lines 157-184: the card image is sent to the extractor.
ExtractCardImage(w) ==
    /\ pc[w] = "extract_card"
    /\ \E http \in HttpOutcomes :
          LET upload == CardUpload(loc[w].img_bytes)
              res == ExtractorCall(http)
          IN /\ Log(w, "Extracting", [upload |-> upload, http |-> http, outcome |-> res])
             /\ IF res.kind = "result"
                THEN Finish(w, Returned(CardSuccess(res.value, loc[w].rotation)))
                ELSE Finish(w, Returned(CardExtractorFailed(res.exc, loc[w].rotation)))
    /\ UNCHANGED <<cpuCount, broken, queue, response, gone, reader, loads>>

Step(w) ==
    \/ InitReader(w)
    \/ DecodePdf(w)
    \/ DecodeImage(w)
    \/ Orienting(w)
    \/ Localizing(w)
    \/ Normalizing(w)
    \/ QualityChecking(w)
    \/ Encoding(w)
    \/ ExtractPdf(w)
    \/ ExtractCardImage(w)

Next ==
    \/ \E r \in Requests : \E fname \in FileNames : Receive(r, fname)
    \/ \E w \in Workers : Assign(w)
    \/ \E r \in Requests : Respond(r)
    \/ \E w \in Workers : Crash(w)
    \/ \E w \in Workers : Step(w)

Spec == Init /\ [][Next]_vars

\* The same program with callers that may close their connection.
NextCallers ==
    \/ Next
    \/ \E r \in Requests : Disconnect(r)

\* The pool hands a waiting item to an idle worker, a started stage ends (the
\* extraction call returns or times out), and the event loop resumes a
\* handler whose future is done.
Fairness ==
    /\ WF_vars(\E w \in Workers : Assign(w))
    /\ \A w \in 1..MaxCpu : WF_vars(w \in Workers /\ Step(w))
    /\ \A r \in Requests : WF_vars(Respond(r))

SpecCallers == Init /\ [][NextCallers]_vars /\ Fairness

FairSpec == Spec /\ Fairness

\* ---------------------------------------------------------------- stage orders and envelopes of a run
IsPrefix(s, t) == Len(s) <= Len(t) /\ \A i \in 1..Len(s) : s[i] = t[i]

SinglePageOrder ==
    <<"Decoding", "Orienting", "Localizing", "Normalizing", "QualityChecking", "Encoding", "Extracting">>

MultiPageOrder == <<"Decoding", "Extracting">>

\* the run of request r returned this envelope
ReturnedEnvelope(r) == future[r].value

HasReturned(r) == future[r].kind = "result"

HasRaised(r) == future[r].kind = "exception"

Has(env, field) == field \in DOMAIN env

\* ---------------------------------------------------------------- C1
\* C1: no exception crosses the pipeline boundary: the only exception a future
\* ever holds is the pool's own BrokenProcessPool, never one raised by a run of
\* process_document.
C1_NoExceptionCrossesPipeline ==
    \A r \in Requests : HasRaised(r) => future[r].exc.type = "BrokenProcessPool"

\* ---------------------------------------------------------------- C2
\* C2: the caller always receives a structured envelope. Once the pool is broken
\* no future is left pending, every answer has status success or failure, and an
\* answer made from a failed future (a crashed worker, a run that raised) is a
\* failure envelope with a reason and the stringified exception as detail.
C2_CallerAlwaysGetsEnvelope ==
    /\ broken => \A r \in Requests : rstate[r] \notin {"queued", "running"}
    /\ \A r \in Requests :
          rstate[r] = "answered" =>
             /\ Has(response[r], "status")
             /\ response[r].status \in {"success", "failure"}
             /\ HasRaised(r) =>
                   /\ response[r].status = "failure"
                   /\ Has(response[r], "reason")
                   /\ Has(response[r], "detail")
                   /\ response[r].detail = Str(future[r].exc)

\* a request whose worker crashed in the middle of its run has been answered,
\* and so has one whose run raised
C2_Witness ==
    /\ \E r \in Requests :
          /\ rstate[r] = "answered"
          /\ HasRaised(r)
          /\ future[r].exc.type = "BrokenProcessPool"
          /\ Len(trace[r]) > 0
    /\ \E r \in Requests :
          /\ rstate[r] = "answered"
          /\ HasRaised(r)
          /\ future[r].exc.type = "IndexError"

\* ---------------------------------------------------------------- C3
DecodingFailedIn(r) == Ran(r, "Decoding") /\ OutOf(r, "Decoding") = "failed"

\* C3 as the spec words it: a failed decode ends the run in
\* {status: failure, reason: "decoding failed"}.
C3_AsStated ==
    \A r \in Requests :
       DecodingFailedIn(r) =>
          /\ HasReturned(r)
          /\ ReturnedEnvelope(r) = [status |-> "failure", reason |-> "decoding failed"]
          /\ Stages(r) = <<"Decoding">>

\* C3 (amended): when fitz.open or Image.open raises, the run returns exactly
\* {status: failure, reason: "Decoding failed. Please retry again."}, without a
\* rotation field, and Decoding is the only stage that run executed.
C3_DecodeFailureEnvelope ==
    \A r \in Requests :
       DecodingFailedIn(r) =>
          /\ HasReturned(r)
          /\ DOMAIN ReturnedEnvelope(r) = {"status", "reason"}
          /\ ReturnedEnvelope(r).status = "failure"
          /\ ReturnedEnvelope(r).reason = "Decoding failed. Please retry again."
          /\ Stages(r) = <<"Decoding">>

C3_Witness ==
    \E r \in Requests : DecodingFailedIn(r) /\ rstate[r] = "answered"

\* ---------------------------------------------------------------- C4
MultiPageIn(r) == Ran(r, "Decoding") /\ OutOf(r, "Decoding") = "multipage"

\* C4: a PDF of more than one page goes from Decoding straight to Extracting;
\* the extractor gets the uploaded bytes unchanged as application/pdf, and no
\* other stage is executed in that run.
C4_MultiPageForwardedAsIs ==
    \A r \in Requests :
       MultiPageIn(r) =>
          /\ IsPrefix(Stages(r), MultiPageOrder)
          /\ (HasReturned(r) => Stages(r) = MultiPageOrder)
          /\ Ran(r, "Extracting") =>
                /\ OutOf(r, "Extracting").upload.file_bytes = RawOf(r)
                /\ OutOf(r, "Extracting").upload.content_type = "application/pdf"

C4_Witness ==
    \E r \in Requests : MultiPageIn(r) /\ HasReturned(r) /\ Ran(r, "Extracting")

\* ---------------------------------------------------------------- C5
CardNotFoundIn(r) == Ran(r, "Localizing") /\ ~OutOf(r, "Localizing").found

\* C5: when the localizer finds no card the run returns a failure envelope with
\* the card-detection reason and the rotation diagnostics of its own orientation
\* stage, and runs neither the quality check nor the extraction.
C5_CardNotFoundEnvelope ==
    \A r \in Requests :
       CardNotFoundIn(r) =>
          /\ HasReturned(r)
          /\ ReturnedEnvelope(r).status = "failure"
          /\ ReturnedEnvelope(r).reason = CARD_NOT_DETECTED
          /\ Has(ReturnedEnvelope(r), "rotation")
          /\ ReturnedEnvelope(r).rotation = OutOf(r, "Orienting")
          /\ DOMAIN ReturnedEnvelope(r).rotation = {"best_angle", "best_stats", "per_angle"}
          /\ ~Ran(r, "QualityChecking")
          /\ ~Ran(r, "Extracting")

C5_Witness ==
    \E r \in Requests : CardNotFoundIn(r) /\ HasReturned(r)

\* ---------------------------------------------------------------- C6
QualityFailedIn(r) == Ran(r, "QualityChecking") /\ ~OutOf(r, "QualityChecking")[1]

\* C6: when the quality gate fails the run returns a failure envelope whose
\* reason is the gate's reason verbatim, with the rotation diagnostics, and the
\* extractor is not called.
C6_QualityFailureEnvelope ==
    \A r \in Requests :
       QualityFailedIn(r) =>
          /\ HasReturned(r)
          /\ ReturnedEnvelope(r).status = "failure"
          /\ ReturnedEnvelope(r).reason = OutOf(r, "QualityChecking")[2]
          /\ Has(ReturnedEnvelope(r), "rotation")
          /\ ReturnedEnvelope(r).rotation = OutOf(r, "Orienting")
          /\ ~Ran(r, "Extracting")

C6_Witness ==
    \E r, q \in Requests :
       /\ QualityFailedIn(r) /\ HasReturned(r)
       /\ QualityFailedIn(q) /\ HasReturned(q)
       /\ ReturnedEnvelope(r).reason # ReturnedEnvelope(q).reason

\* ---------------------------------------------------------------- C7
ExtractionFailedIn(r) == Ran(r, "Extracting") /\ OutOf(r, "Extracting").outcome.kind = "exception"

\* what C7 says of a failed extraction call, for a given reason string
ExtractionFailureEnvelope(r, reason) ==
    /\ HasReturned(r)
    /\ ReturnedEnvelope(r).status = "failure"
    /\ ReturnedEnvelope(r).reason = reason
    /\ Has(ReturnedEnvelope(r), "detail")
    /\ ReturnedEnvelope(r).detail = Str(OutOf(r, "Extracting").outcome.exc)
    /\ Has(ReturnedEnvelope(r), "rotation") <=> Ran(r, "Orienting")
    /\ Ran(r, "Orienting") => ReturnedEnvelope(r).rotation = OutOf(r, "Orienting")
    /\ MultiPageIn(r) => ~Has(ReturnedEnvelope(r), "rotation")

\* C7 as the spec words it: the reason of a failed extraction is "extraction failed".
C7_AsStated ==
    \A r \in Requests : ExtractionFailedIn(r) => ExtractionFailureEnvelope(r, "extraction failed")

\* C7 (amended): a failed extraction call, on either path, ends the run in a
\* failure envelope with reason "extractor_failed", the stringified upstream error
\* as detail, and rotation diagnostics exactly when the orientation stage ran.
C7_ExtractionFailureEnvelope ==
    \A r \in Requests : ExtractionFailedIn(r) => ExtractionFailureEnvelope(r, "extractor_failed")

C7_Witness ==
    /\ \E r \in Requests : ExtractionFailedIn(r) /\ MultiPageIn(r) /\ HasReturned(r)
    /\ \E r \in Requests : ExtractionFailedIn(r) /\ Ran(r, "Orienting") /\ HasReturned(r)

\* ---------------------------------------------------------------- C8
SucceededIn(r) == HasReturned(r) /\ ReturnedEnvelope(r).status = "success"

\* C8: a success envelope comes only from an extraction call that returned a
\* payload, and carries it as data; on the single-page path the card was found,
\* the quality gate passed and the envelope carries the run's rotation diagnostics.
C8_SuccessOnlyFromPayload ==
    \A r \in Requests :
       SucceededIn(r) =>
          /\ Ran(r, "Extracting")
          /\ OutOf(r, "Extracting").outcome.kind = "result"
          /\ Has(ReturnedEnvelope(r), "data")
          /\ ReturnedEnvelope(r).data = OutOf(r, "Extracting").outcome.value
          /\ \/ MultiPageIn(r)
             \/ /\ Ran(r, "Localizing") /\ OutOf(r, "Localizing").found
                /\ Ran(r, "QualityChecking") /\ OutOf(r, "QualityChecking")[1]
                /\ Has(ReturnedEnvelope(r), "rotation")
                /\ ReturnedEnvelope(r).rotation = OutOf(r, "Orienting")

C8_Witness ==
    /\ \E r \in Requests : SucceededIn(r) /\ MultiPageIn(r)
    /\ \E r \in Requests : SucceededIn(r) /\ Ran(r, "QualityChecking")

\* ---------------------------------------------------------------- C9
\* C9: the stages a run has executed are always a prefix of the single-page
\* order or exactly Decoding, Extracting; and once the run's future is resolved
\* no further stage is executed for it.
C9_StageOrder ==
    /\ [](\A r \in Requests : IsPrefix(Stages(r), SinglePageOrder) \/ Stages(r) = MultiPageOrder)
    /\ [][\A r \in Requests : future[r].kind # "pending" => trace'[r] = trace[r]]_vars

C9_Witness ==
    /\ \E r \in Requests : HasReturned(r) /\ Stages(r) = SinglePageOrder
    /\ \E r \in Requests : HasReturned(r) /\ Stages(r) = MultiPageOrder

\* ---------------------------------------------------------------- C10
\* C10: in every worker process the engine is constructed at most once, and the
\* handle, once set, stays the one built by that first load.
C10_EngineLoadedOnce ==
    \A w \in Workers :
       /\ loads[w] <= 1
       /\ reader[w] = IF loads[w] = 0 THEN NoReader ELSE [pid |-> w, build |-> 1]

\* one process has run two requests past init_reader on a single load
C10_Witness ==
    /\ MAX_WORKERS = 1
    /\ loads[1] = 1
    /\ \E r, q \in Requests : r # q /\ Ran(r, "Decoding") /\ Ran(q, "Decoding")

\* ---------------------------------------------------------------- C11
Busy(w) == pc[w] \notin {"idle", "dead"}

\* C11: every running request is the one task of exactly one worker process, a
\* busy process runs exactly one request, and the engine handle a process holds
\* is the one built in that process.
C11_OneRunPerProcess ==
    /\ \A r \in Requests :
          rstate[r] = "running" => Cardinality({w \in Workers : Busy(w) /\ task[w] = r}) = 1
    /\ \A w \in Workers :
          /\ Busy(w) => task[w] \in Requests /\ rstate[task[w]] = "running"
          /\ ~Busy(w) => task[w] = 0
          /\ reader[w] # NoReader => reader[w].pid = w

\* two processes run two different requests at once, each on its own handle
C11_Witness ==
    \E v, w \in Workers :
       /\ v # w
       /\ Busy(v) /\ Busy(w)
       /\ reader[v] # NoReader /\ reader[w] # NoReader
       /\ pc[v] = "orient" /\ pc[w] = "quality"

\* ---------------------------------------------------------------- C12
\* C12: the pool has max(1, cpu_count - 1) worker processes, so at least one,
\* also on a host that reports a single core.
C12_PoolSize ==
    /\ MAX_WORKERS >= 1
    /\ MAX_WORKERS >= cpuCount - 1
    /\ MAX_WORKERS \in {1, cpuCount - 1}
    /\ DOMAIN pc = 1..MAX_WORKERS

\* a host with one core whose single worker is running a request
C12_Witness ==
    /\ cpuCount = 1
    /\ \E w \in DOMAIN pc : pc[w] = "decode"

\* ---------------------------------------------------------------- C13
AllowedExtension(fname) == Ext(fname) \in {"pdf", "jpg", "jpeg", "png"}

\* C13: only uploads with an allowed extension ever reach the pool. Every work
\* item queued or being run has one, and a request answered without a future
\* got the invalid-file-type failure and ran no stage.
C13_DisallowedNeverDispatched ==
    /\ \A i \in 1..Len(queue) : AllowedExtension(queue[i].filename)
    /\ \A w \in Workers : Busy(w) => AllowedExtension(loc[w].filename)
    /\ \A r \in Requests :
          (rstate[r] = "answered" /\ future[r] = NoFuture) =>
             /\ response[r] = InvalidFileType
             /\ response[r].status = "failure"
             /\ trace[r] = <<>>

\* an upload was rejected at the endpoint while the pool exists and is intact
C13_Witness ==
    \E r \in Requests :
       /\ rstate[r] = "answered"
       /\ future[r] = NoFuture
       /\ response[r] = InvalidFileType
       /\ ~broken

\* ---------------------------------------------------------------- C14
ExtractionCalls(r) == {i \in 1..Len(trace[r]) : trace[r][i].stage = "Extracting"}

\* C14: a run calls the extraction service at most once, and when that call
\* fails the run has ended with it: the call is the last thing the run did and
\* its failure envelope is the run's result.
C14_NoRetry ==
    \A r \in Requests :
       /\ Cardinality(ExtractionCalls(r)) <= 1
       /\ ExtractionFailedIn(r) =>
             /\ trace[r][Len(trace[r])].stage = "Extracting"
             /\ HasReturned(r)
             /\ ReturnedEnvelope(r).status = "failure"

C14_Witness ==
    \E r \in Requests :
       /\ ExtractionFailedIn(r)
       /\ Ran(r, "Encoding")
       /\ rstate[r] = "answered"

\* ---------------------------------------------------------------- C15
\* the error body as the client decodes it: JSON when it parses, else the raw text
DecodedBody(http) == IF http.parses THEN <<"json", http.body>> ELSE <<"text", http.body>>

Is2xx(http) == http.kind = "response" /\ http.status_code >= 200 /\ http.status_code <= 299

\* C15 as stated: every failure the client raises, the one for a timeout
\* included, carries the decoded error body, and payloads come only from 2xx.
C15_AsStated ==
    \A r \in Requests : \A i \in ExtractionCalls(r) :
       LET http == trace[r][i].out.http
           outcome == trace[r][i].out.outcome
       IN /\ ~Is2xx(http) =>
                /\ outcome.kind = "exception"
                /\ Len(outcome.exc.msg) = 3
                /\ outcome.exc.msg[3] = DecodedBody(http)
          /\ outcome.kind = "result" => Is2xx(http) /\ outcome.value = <<"json", http.body>>

\* C15 amended: for every call made, a response outside 2xx raises a failure
\* whose message carries the status and the decoded body, a timeout raises the
\* transport's own exception, which has no body, and a payload is returned
\* only for a 2xx response, as its parsed JSON.
C15_ExtractionClientContract ==
    \A r \in Requests : \A i \in ExtractionCalls(r) :
       LET http == trace[r][i].out.http
           outcome == trace[r][i].out.outcome
       IN /\ http.kind = "timeout" => outcome.kind = "exception"
          /\ (http.kind = "response" /\ ~Is2xx(http)) =>
                /\ outcome.kind = "exception"
                /\ Len(outcome.exc.msg) = 3
                /\ outcome.exc.msg[2] = http.status_code
                /\ outcome.exc.msg[3] = DecodedBody(http)
          /\ http.kind = "timeout" => outcome.exc.type = "TimeoutException"
          /\ outcome.kind = "result" => Is2xx(http) /\ outcome.value = <<"json", http.body>>

\* one call met a non-2xx response with a text body, another timed out
C15_Witness ==
    \E r, q \in Requests :
       /\ r # q
       /\ \E i \in ExtractionCalls(r) :
             /\ ~Is2xx(trace[r][i].out.http)
             /\ trace[r][i].out.http.kind = "response"
             /\ ~trace[r][i].out.http.parses
       /\ \E i \in ExtractionCalls(q) :
             /\ trace[q][i].out.http.kind = "timeout"
             /\ trace[q][i].out.outcome.kind = "exception"

\* ---------------------------------------------------------------- C16
SuccessShape(env) ==
    /\ env.status = "success"
    /\ Has(env, "data")
    /\ ~Has(env, "reason")
    /\ ~Has(env, "detail")

FailureShape(env) ==
    /\ env.status = "failure"
    /\ Has(env, "reason")
    /\ ~Has(env, "data")

WellShaped(env) ==
    /\ DOMAIN env \subseteq {"status", "data", "reason", "detail", "rotation"}
    /\ Has(env, "status")
    /\ SuccessShape(env) # FailureShape(env)

\* C16: every envelope a run returns and every envelope a caller is answered
\* with has exactly one of the two shapes, success (data, no reason or detail)
\* or failure (reason, optional detail, no data); a run that ended in an
\* exception is answered with a failure envelope by the dispatch layer.
C16_EnvelopeShapes ==
    \A r \in Requests :
       /\ HasReturned(r) => WellShaped(ReturnedEnvelope(r))
       /\ rstate[r] = "answered" =>
             /\ WellShaped(response[r])
             /\ HasRaised(r) => FailureShape(response[r])
             /\ HasReturned(r) => response[r] = ReturnedEnvelope(r)

C16_Witness ==
    \E r, q \in Requests :
       /\ rstate[r] = "answered" /\ HasRaised(r) /\ Has(response[r], "detail")
       /\ rstate[q] = "answered" /\ HasReturned(q) /\ SuccessShape(response[q])

\* ---------------------------------------------------------------- C18
\* C18: the envelope a run returns carries a rotation field exactly when the
\* run's orientation stage completed, and the field holds the best_angle,
\* best_stats and per_angle that stage computed; decode failures and the
\* multi-page branch never carry it.
C18_RotationIffOriented ==
    \A r \in Requests : HasReturned(r) =>
       LET env == ReturnedEnvelope(r)
       IN /\ Has(env, "rotation") <=> Ran(r, "Orienting")
          /\ Ran(r, "Orienting") => env.rotation = OutOf(r, "Orienting")
          /\ (DecodingFailedIn(r) \/ MultiPageIn(r)) => ~Has(env, "rotation")

\* a single-page run that succeeded beside a multi-page run that returned
C18_Witness ==
    \E r, q \in Requests :
       /\ SucceededIn(r) /\ Ran(r, "Orienting") /\ Has(ReturnedEnvelope(r), "rotation")
       /\ HasReturned(q) /\ MultiPageIn(q)

\* ---------------------------------------------------------------- C19
Running == {r \in Requests : rstate[r] = "running"}

CallingExtractor == {w \in DOMAIN pc : pc[w] \in {"extract_pdf", "extract_card"}}

Queued == {queue[i].req : i \in 1..Len(queue)}

\* C19: at any moment at most MAX_WORKERS runs execute, so at most MAX_WORKERS
\* calls to the extraction service are open; every other submitted request
\* that has no result yet sits in the pool's queue, once.
C19_AtMostMaxWorkersRuns ==
    /\ Cardinality(Running) <= MAX_WORKERS
    /\ Cardinality({w \in DOMAIN pc : Busy(w)}) <= MAX_WORKERS
    /\ Cardinality(CallingExtractor) <= MAX_WORKERS
    /\ Cardinality(Queued) = Len(queue)
    /\ Queued \cap Running = {}
    /\ \A r \in Requests : rstate[r] = "queued" <=> r \in Queued

\* every worker is at its extraction call while a submission waits
C19_Witness ==
    /\ Cardinality(CallingExtractor) = MAX_WORKERS
    /\ Cardinality(Running) = MAX_WORKERS
    /\ Len(queue) > 0

\* ---------------------------------------------------------------- C17
RunOf(r) == {w \in DOMAIN pc : Busy(w) /\ task[w] = r}

\* the caller's leaving changes nothing of the pool, the workers or the runs
CallerLeavesRunAlone ==
    gone' # gone => UNCHANGED <<queue, rstate, future, reader, pc, task, loc, trace, broken>>

\* C17: when the caller of a running request disappears, the run is not
\* cancelled or interrupted: the step in which the caller leaves touches no
\* worker, the run stays in its worker process, and it goes on to resolve its
\* future (making its extraction call on the way when its path has one); only
\* the answer is dropped, nothing is sent to the caller that left.
C17_DisconnectDoesNotCancel ==
    /\ [][CallerLeavesRunAlone]_vars
    /\ [](\A r \in gone :
             /\ rstate[r] \in {"running", "finished", "discarded"}
             /\ rstate[r] = "running" => Cardinality(RunOf(r)) = 1
             /\ rstate[r] # "running" => future[r] # NoFuture
             /\ response[r] = NoResponse)
    /\ \A r \in Requests :
          (r \in gone) ~> (rstate[r] = "discarded" /\ future[r] # NoFuture)

\* a caller left during the run, the run still made its extraction call and
\* returned a success envelope, which was discarded
C17_Witness ==
    \E r \in gone :
       /\ rstate[r] = "discarded"
       /\ Ran(r, "Extracting")
       /\ SucceededIn(r)
       /\ response[r] = NoResponse

\* ---------------------------------------------------------------- C20
Assigned(r) == rstate[r] \in {"running", "finished", "answered"} /\ future[r] # Raised(BrokenProcessPool)

\* C20: under fair scheduling of the pool, of the stages and of the event
\* loop, every request that was put in the pool's queue is eventually
\* answered with an envelope, and unless a worker process dies it is first
\* given to a worker; no request waits forever behind others.
C20_EveryRequestAnswered ==
    \A r \in Requests :
       /\ (rstate[r] = "queued") ~> (rstate[r] = "answered" /\ WellShaped(response[r]))
       /\ (rstate[r] = "queued") ~> (Assigned(r) \/ broken)

\* the second request waited in the queue behind the first and was answered
\* from its own run
C20_Witness ==
    /\ MAX_WORKERS = 1
    /\ ~broken
    /\ \A r \in Requests : rstate[r] = "answered" /\ HasReturned(r) /\ Ran(r, "Decoding")

====
